---------------------------- MODULE Spec2Model ----------------------------
(***************************************************************************)
(* A model of the CoAP client of tokio-coap (src/client.rs):               *)
(*   - decompose, the RFC 7252 section 6.4 decomposition of a parsed URI   *)
(*     into an Endpoint and an ordered option set;                         *)
(*   - the Client builder (new, get, set_endpoint, with_endpoint);         *)
(*   - Client::send, one request/response exchange over a UDP socket with  *)
(*     a 5000 ms deadline.                                                 *)
(* Strings are sequences of bytes (naturals below 256), so that percent    *)
(* decoding, UTF-8 validation, lowercasing and splitting are computed and  *)
(* not assumed.                                                            *)
(***************************************************************************)
EXTENDS Integers, Sequences, FiniteSets, TLC

VARIABLES
    uri,            \* decompose: the argument `uri`
    decomposed,     \* decompose: None before the call, Some(result) after it
    client,         \* the caller's Client value: None, or Some([endpoint, msg])
    get_err,        \* the error of the last failed Client::get, or None
    pc,             \* the future returned by send: "none", "resolving", "sending",
                    \* "listening", "done", "panicked", "dropped"
    exchange,       \* what send moved out of the Client: None, or Some([endpoint, msg])
    lookups,        \* name resolutions started
    sock,           \* the local UDP socket: "none", "bound", "closed"
    remote_addr,    \* None, or Some(address) the endpoint resolved to
    wire,           \* the datagrams sent from the socket, in order
    arrived,        \* what reached the socket, in arrival order, each with its time
    consumed,       \* how many entries of `arrived` the stream has read
    now,            \* Instant::now(), in ms
    timeout_time,   \* None, or Some(deadline)
    outcome,        \* None, or Some(result) the future resolved to
    printed,        \* the DeadlineError printed by the map_err closure, or None
    exchanges       \* concurrent exchanges: for each, the state of its own future

-----------------------------------------------------------------------------
(* Option<T>, Result<T, E>                                                 *)

None == << >>

Some(x) == << x >>

unwrap_or(o, default) == IF o = None THEN default ELSE o[1]

Ok(v) == [ok |-> TRUE, val |-> v]

Err(e) == [ok |-> FALSE, err |-> e]

url_parsing(reason) == [kind |-> "UrlParsing", reason |-> reason]

-----------------------------------------------------------------------------
(* Characters and strings                                                  *)

Ord ==
    ("%" :> 37) @@ ("&" :> 38) @@ ("." :> 46) @@ ("/" :> 47) @@
    ("1" :> 49) @@ ("2" :> 50) @@ ("3" :> 51) @@ ("4" :> 52) @@
    ("5" :> 53) @@ ("6" :> 54) @@ ("9" :> 57) @@ ("=" :> 61) @@
    ("A" :> 65) @@ ("C" :> 67) @@ ("F" :> 70) @@ ("H" :> 72) @@
    ("a" :> 97) @@ ("c" :> 99) @@ ("f" :> 102) @@ ("h" :> 104) @@
    ("p" :> 112) @@ ("x" :> 120)

Str(chars) == [i \in DOMAIN chars |-> Ord[chars[i]]]

IsDigit(b) == b \in 48..57

IsHex(b) == b \in 48..57 \/ b \in 65..70 \/ b \in 97..102

HexVal(b) ==
    IF b \in 48..57 THEN b - 48
    ELSE IF b \in 65..70 THEN b - 55
    ELSE b - 87

(* str::to_lowercase on ASCII text *)
to_lowercase(s) == [i \in DOMAIN s |-> IF s[i] \in 65..90 THEN s[i] + 32 ELSE s[i]]

starts_with(s, b) == Len(s) >= 1 /\ s[1] = b

(* str::split(sep): the pieces between the separators, n separators give   *)
(* n + 1 pieces, the empty string gives one empty piece.                   *)
RECURSIVE SplitFrom(_, _, _)
SplitFrom(s, sep, piece) ==
    IF s = << >> THEN << piece >>
    ELSE IF Head(s) = sep THEN << piece >> \o SplitFrom(Tail(s), sep, << >>)
    ELSE SplitFrom(Tail(s), sep, Append(piece, Head(s)))

split(s, sep) == SplitFrom(s, sep, << >>)

skip(seq, n) == SubSeq(seq, n + 1, Len(seq))

(* percent_encoding::percent_decode: "%XY" with two hex digits becomes the *)
(* byte 0xXY, every other byte (a stray '%' included) is copied.           *)
RECURSIVE percent_decode(_)
percent_decode(s) ==
    IF s = << >> THEN << >>
    ELSE IF s[1] = 37 /\ Len(s) >= 3 /\ IsHex(s[2]) /\ IsHex(s[3])
         THEN << 16 * HexVal(s[2]) + HexVal(s[3]) >> \o percent_decode(SubSeq(s, 4, Len(s)))
         ELSE << s[1] >> \o percent_decode(Tail(s))

IsCont(bs, i) == i <= Len(bs) /\ bs[i] \in 128..191

(* std::str::from_utf8 validation *)
RECURSIVE ValidUtf8(_)
ValidUtf8(bs) ==
    IF bs = << >> THEN TRUE
    ELSE LET b == bs[1]
             rest(n) == SubSeq(bs, n + 1, Len(bs))
         IN  IF b < 128 THEN ValidUtf8(rest(1))
             ELSE IF b \in 194..223
                  THEN IsCont(bs, 2) /\ ValidUtf8(rest(2))
             ELSE IF b \in 224..239
                  THEN /\ IsCont(bs, 2) /\ IsCont(bs, 3)
                       /\ (b = 224 => bs[2] >= 160)
                       /\ (b = 237 => bs[2] <= 159)
                       /\ ValidUtf8(rest(3))
             ELSE IF b \in 240..244
                  THEN /\ IsCont(bs, 2) /\ IsCont(bs, 3) /\ IsCont(bs, 4)
                       /\ (b = 240 => bs[2] >= 144)
                       /\ (b = 244 => bs[2] <= 143)
                       /\ ValidUtf8(rest(4))
             ELSE FALSE

depercent(s) ==
    LET bytes == percent_decode(s)
    IN  IF ValidUtf8(bytes) THEN Ok(bytes)
        ELSE Err(url_parsing(<< "invalid utf-8 sequence" >>))

-----------------------------------------------------------------------------
(* host.parse::<IpAddr>(): dotted-quad IPv4.  An IPv6 literal needs a ':', *)
(* which no host of the model contains, so the IPv6 branch never matches.  *)

RECURSIVE DecVal(_)
DecVal(ds) == IF ds = << >> THEN 0 ELSE 10 * DecVal(SubSeq(ds, 1, Len(ds) - 1)) + (ds[Len(ds)] - 48)

IsOctet(ds) ==
    /\ Len(ds) \in 1..3
    /\ \A i \in DOMAIN ds : IsDigit(ds[i])
    /\ DecVal(ds) <= 255

ParseIpAddr(host) ==
    LET parts == split(host, 46)
    IN  IF Len(parts) = 4 /\ \A i \in 1..4 : IsOctet(parts[i])
        THEN Some([i \in 1..4 |-> DecVal(parts[i])])
        ELSE None

SocketAddr(ip, port) == [ip |-> ip, port |-> port]

-----------------------------------------------------------------------------
(* Endpoint and Options                                                    *)

Unset == [tag |-> "Unset"]

Unresolved(host, port) == [tag |-> "Unresolved", host |-> host, port |-> port]

Resolved(addr) == [tag |-> "Resolved", addr |-> addr]

OptionsNew == << >>

UriHostNew(v) == [option |-> "UriHost", value |-> v]

UriPathNew(v) == [option |-> "UriPath", value |-> v]

UriQueryNew(v) == [option |-> "UriQuery", value |-> v]

OptionsPush(options, o) == Append(options, o)

DefaultPort == 5683


-----------------------------------------------------------------------------
(* decompose (RFC 7252 6.4)                                                *)

(* for segment in ... { options.push(New(depercent(segment)?)) }           *)
RECURSIVE PushSegments(_, _, _)
PushSegments(options, segments, kind) ==
    IF segments = << >> THEN Ok(options)
    ELSE LET d == depercent(Head(segments))
         IN  IF ~d.ok THEN d
             ELSE PushSegments(
                    OptionsPush(options,
                                IF kind = "UriPath" THEN UriPathNew(d.val)
                                                    ELSE UriQueryNew(d.val)),
                    Tail(segments), kind)

(* faulty variant: "coaps" is let through like "coap" *)
CheckScheme_AcceptsCoaps(u) ==
    IF u.scheme = "coap" \/ u.scheme = "coaps" THEN Ok(TRUE)
    ELSE Err(url_parsing(<< u.scheme, " is not a coap scheme" >>))

(* Steps 3 and 4: the scheme and the fragment *)
CheckScheme(u) ==
    IF u.scheme = "coap" THEN Ok(TRUE)
    ELSE IF u.scheme = "coaps"
         THEN Err(url_parsing(<< "the coaps scheme is currently unsupported" >>))
         ELSE Err(url_parsing(<< u.scheme, " is not a coap scheme" >>))

CheckFragment(u) ==
    IF u.fragment # None
    THEN Err(url_parsing(<< "cannot specify fragment on coap url" >>))
    ELSE Ok(TRUE)

(* faulty variant: the host is percent-decoded without being lowercased *)
HostStep_NoLowercase(u) ==
    IF u.host = None
    THEN Err(url_parsing(<< "missing host, a coap url must be absolute" >>))
    ELSE LET host == u.host[1]
             ip   == ParseIpAddr(host)
         IN  IF ip = None
             THEN LET d == depercent(host)
                  IN  IF ~d.ok THEN d
                      ELSE Ok([host |-> d.val, ip |-> ip,
                               options |-> OptionsPush(OptionsNew, UriHostNew(d.val))])
             ELSE Ok([host |-> host, ip |-> ip, options |-> OptionsNew])

(* faulty variant: a Uri-Host option is pushed for a literal IP host too *)
HostStep_UriHostForIp(u) ==
    IF u.host = None
    THEN Err(url_parsing(<< "missing host, a coap url must be absolute" >>))
    ELSE LET host == u.host[1]
             ip   == ParseIpAddr(host)
             d    == depercent(to_lowercase(host))
         IN  IF ~d.ok THEN d
             ELSE Ok([host |-> d.val, ip |-> ip,
                      options |-> OptionsPush(OptionsNew, UriHostNew(d.val))])

(* Step 5: the host, its literal-IP parse, and the Uri-Host option *)
HostStep(u) ==
    IF u.host = None
    THEN Err(url_parsing(<< "missing host, a coap url must be absolute" >>))
    ELSE LET host == u.host[1]
             ip   == ParseIpAddr(host)
         IN  IF ip = None
             THEN LET d == depercent(to_lowercase(host))
                  IN  IF ~d.ok THEN d
                      ELSE Ok([host |-> d.val, ip |-> ip,
                               options |-> OptionsPush(OptionsNew, UriHostNew(d.val))])
             ELSE Ok([host |-> host, ip |-> ip, options |-> OptionsNew])

(* Steps 7 and 8: the path *)
IsNonEmpty(s) == s # << >>

(* faulty variant: empty path segments are left out *)
PathStep_SkipsEmpty(u, options) ==
    LET path == unwrap_or(u.path, Str(<< "/" >>))
    IN  IF ~starts_with(path, 47)
        THEN Err(url_parsing(<< "path does not start with /, a coap url must be absolute" >>))
        ELSE PushSegments(options, SelectSeq(skip(split(path, 47), 1), IsNonEmpty), "UriPath")

PathStep(u, options) ==
    LET path == unwrap_or(u.path, Str(<< "/" >>))
    IN  IF ~starts_with(path, 47)
        THEN Err(url_parsing(<< "path does not start with /, a coap url must be absolute" >>))
        ELSE PushSegments(options, skip(split(path, 47), 1), "UriPath")

(* Step 9: the query *)
QueryStep(u, options) ==
    LET query == unwrap_or(u.query, << >>)
    IN  IF query # << >>
        THEN PushSegments(options, split(query, 38), "UriQuery")
        ELSE Ok(options)

(* faulty variant: the fragment is checked before the scheme *)
decompose_FragmentFirst(u) ==
    LET f == CheckFragment(u) IN
    IF ~f.ok THEN f ELSE
    LET s == CheckScheme(u) IN
    IF ~s.ok THEN s ELSE
    LET h == HostStep(u) IN
    IF ~h.ok THEN h ELSE
    LET port == unwrap_or(u.port, DefaultPort)
        p == PathStep(u, h.val.options)
    IN
    IF ~p.ok THEN p ELSE
    LET q == QueryStep(u, p.val) IN
    IF ~q.ok THEN q ELSE
    IF h.val.ip # None
    THEN Ok([endpoint |-> Resolved(SocketAddr(h.val.ip[1], port)), options |-> q.val])
    ELSE Ok([endpoint |-> Unresolved(h.val.host, port), options |-> q.val])

decompose(u) ==
    LET s == CheckScheme(u) IN
    IF ~s.ok THEN s ELSE
    LET f == CheckFragment(u) IN
    IF ~f.ok THEN f ELSE
    LET h == HostStep(u) IN
    IF ~h.ok THEN h ELSE
    LET port == unwrap_or(u.port, DefaultPort)
        p == PathStep(u, h.val.options)
    IN
    IF ~p.ok THEN p ELSE
    LET q == QueryStep(u, p.val) IN
    IF ~q.ok THEN q ELSE
    IF h.val.ip # None
    THEN Ok([endpoint |-> Resolved(SocketAddr(h.val.ip[1], port)), options |-> q.val])
    ELSE Ok([endpoint |-> Unresolved(h.val.host, port), options |-> q.val])

-----------------------------------------------------------------------------
(* The parsed URIs handed to decompose.  uri::Uri has a scheme and an      *)
(* optional host, port, path, query and fragment.                          *)

MaxHostLen == 3

MaxPathLen == 4

MaxQueryLen == 3

StringsUpTo(alphabet, n) == UNION { [1..k -> alphabet] : k \in 0..n }

HostAlphabet == { Ord[c] : c \in {"h", "H", "%", "4", "1", "F"} }

PathAlphabet == { Ord[c] : c \in {"/", "a", "%", "6", "1", "f"} }

QueryAlphabet == { Ord[c] : c \in {"&", "x", "=", "%", "f"} }

IpLikeHosts ==
    { Str(<< "1", ".", "2", ".", "3", ".", "4" >>),
      Str(<< "2", "5", "5", ".", "1", ".", "1", ".", "9" >>),
      Str(<< "2", "5", "6", ".", "1", ".", "1", ".", "1" >>),
      Str(<< "1", ".", "2", ".", "3" >>),
      Str(<< "1", ".", "2", ".", "3", ".", "h" >>),
      Str(<< "1", ".", ".", "3", ".", "4" >>) }

FewHosts ==
    { None, Some(<< >>), Some(Str(<< "h" >>)), Some(Str(<< "%", "F", "F" >>)),
      Some(Str(<< "1", ".", "2", ".", "3", ".", "4" >>)) }

FewPaths ==
    { None, Some(<< >>), Some(Str(<< "p" >>)), Some(Str(<< "/", "a", "/", "p" >>)),
      Some(Str(<< "/", "%", "f", "f" >>)) }

FewQueries ==
    { None, Some(<< >>), Some(Str(<< "x", "=", "1" >>)), Some(Str(<< "%", "f", "f" >>)) }

Ports == { None, Some(9999) }

Schemes == { "coap", "coaps", "http" }

Fragments == { None, Some(Str(<< "f" >>)) }

Uri(scheme, host, port, path, query, fragment) ==
    [scheme |-> scheme, host |-> host, port |-> port, path |-> path,
     query |-> query, fragment |-> fragment]

Uris ==
    \* every combination of violated and satisfied checks
    { Uri(s, h, p, pa, q, f) :
        s \in Schemes, h \in FewHosts, p \in Ports, pa \in FewPaths,
        q \in FewQueries, f \in Fragments }
    \cup
    \* hosts: every short string over HostAlphabet, and dotted hosts
    { Uri("coap", Some(h), p, None, None, None) :
        h \in StringsUpTo(HostAlphabet, MaxHostLen) \cup IpLikeHosts, p \in Ports }
    \cup
    \* paths: every short string over PathAlphabet
    { Uri("coap", Some(h), None, Some(pa), None, None) :
        h \in { Str(<< "h" >>), Str(<< "1", ".", "2", ".", "3", ".", "4" >>) },
        pa \in StringsUpTo(PathAlphabet, MaxPathLen)
               \cup { Str(<< "/", "%", "c", "3", "%", "a", "9" >>),
                      Str(<< "/", "a", "%", "2", "f", "a", "/" >>) } }
    \cup
    \* queries: every short string over QueryAlphabet
    { Uri("coap", Some(Str(<< "h" >>)), None, pa, Some(q), None) :
        pa \in { None, Some(Str(<< "/", "a" >>)) },
        q \in StringsUpTo(QueryAlphabet, MaxQueryLen)
              \cup { Str(<< "x", "=", "1", "&", "%", "6", "1", "=", "%", "6", "6" >>) } }

-----------------------------------------------------------------------------
(* decompose applied to one URI                                            *)

dvars == << uri, decomposed >>

xvars == << client, get_err, pc, exchange, lookups, sock, remote_addr, wire,
            arrived, consumed, now, timeout_time, outcome, printed >>

cvars == << exchanges >>

vars == << dvars, xvars, cvars >>

Exchanges == { "a", "b" }

(* a future of send that was not yet created *)
NoExchange ==
    [pc |-> "none", msg |-> None, remote_addr |-> None, port |-> None, wire |-> << >>,
     arrived |-> << >>, consumed |-> 0, timeout_time |-> None, outcome |-> None]

InitExchange ==
    /\ exchanges = [i \in Exchanges |-> NoExchange]
    /\ client = None
    /\ get_err = None
    /\ pc = "none"
    /\ exchange = None
    /\ lookups = 0
    /\ sock = "none"
    /\ remote_addr = None
    /\ wire = << >>
    /\ arrived = << >>
    /\ consumed = 0
    /\ now = 0
    /\ timeout_time = None
    /\ outcome = None
    /\ printed = None

InitDecompose ==
    /\ uri \in Uris
    /\ decomposed = None
    /\ InitExchange

CallDecompose ==
    /\ decomposed = None
    /\ decomposed' = Some(decompose(uri))
    /\ UNCHANGED << uri, xvars, cvars >>

NextDecompose == CallDecompose

SpecDecompose == InitDecompose /\ [][NextDecompose]_vars

-----------------------------------------------------------------------------
(* Client: new, get, set_endpoint, with_endpoint.  One builder session is   *)
(* modelled: a Client is built once (new or get), and a get that failed    *)
(* leaves the caller with the error and nothing else.                      *)

MessageNew == [code |-> "Empty", options |-> OptionsNew, payload |-> << >>]

ClientNew == [endpoint |-> Unset, msg |-> MessageNew]

(* Client::get, given what Uri::new(url) returned: None for a parse error, *)
(* Some(uri) for a parsed URI.                                             *)
ClientGet(parsed) ==
    IF parsed = None THEN Err(url_parsing(<< "uri parse error" >>))
    ELSE LET d == decompose(parsed[1])
         IN  IF ~d.ok THEN d
             ELSE Ok([endpoint |-> d.val.endpoint,
                      msg |-> [MessageNew EXCEPT !.options = d.val.options]])

IsNotUriHost(o) == o.option # "UriHost"

(* faulty variant: replacing the endpoint also removes the Uri-Host option *)
ClientSetEndpoint_DropsUriHost(c, endpoint) ==
    [c EXCEPT !.endpoint = endpoint,
              !.msg.options = SelectSeq(c.msg.options, IsNotUriHost)]

ClientSetEndpoint(c, endpoint) == [c EXCEPT !.endpoint = endpoint]

GetUris ==
    { Uri("coap", Some(Str(<< "h" >>)), None, Some(Str(<< "/", "a", "/", "p" >>)),
          Some(Str(<< "x", "=", "1" >>)), None),
      Uri("coap", Some(Str(<< "1", ".", "2", ".", "3", ".", "4" >>)), Some(9999),
          Some(Str(<< "/" >>)), None, None),
      Uri("coaps", Some(Str(<< "h" >>)), None, Some(Str(<< "/" >>)), None, None),
      Uri("coap", Some(Str(<< "h" >>)), None, Some(Str(<< "/", "p" >>)), None,
          Some(Str(<< "f" >>))),
      Uri("coap", Some(Str(<< "%", "F", "F" >>)), None, Some(Str(<< "/" >>)), None, None) }

UriNewResults == { None } \cup { Some(u) : u \in GetUris }

ServerIp == << 1, 2, 3, 4 >>

SetEndpoints ==
    { Unset, Unresolved(Str(<< "h" >>), DefaultPort), Resolved(SocketAddr(ServerIp, 9999)) }

New ==
    /\ client = None /\ pc = "none" /\ get_err = None
    /\ client' = Some(ClientNew)
    /\ UNCHANGED << dvars, cvars, get_err, pc, exchange, lookups, sock, remote_addr, wire,
                    arrived, consumed, now, timeout_time, outcome, printed >>

(* faulty variant: get starts resolving the host before the URI is validated *)
Get_ResolvesEagerly(parsed) ==
    /\ client = None /\ pc = "none" /\ get_err = None
    /\ LET r == ClientGet(parsed)
       IN  IF r.ok THEN client' = Some(r.val) /\ get_err' = None
                   ELSE client' = None /\ get_err' = Some(r.err)
    /\ lookups' = IF parsed # None /\ parsed[1].host # None THEN lookups + 1 ELSE lookups
    /\ UNCHANGED << dvars, cvars, pc, exchange, sock, remote_addr, wire,
                    arrived, consumed, now, timeout_time, outcome, printed >>

Get(parsed) ==
    /\ client = None /\ pc = "none" /\ get_err = None
    /\ LET r == ClientGet(parsed)
       IN  IF r.ok THEN client' = Some(r.val) /\ get_err' = None
                   ELSE client' = None /\ get_err' = Some(r.err)
    /\ UNCHANGED << dvars, cvars, pc, exchange, lookups, sock, remote_addr, wire,
                    arrived, consumed, now, timeout_time, outcome, printed >>

SetEndpoint(endpoint) ==
    /\ client # None
    /\ client' = Some(ClientSetEndpoint(client[1], endpoint))
    /\ UNCHANGED << dvars, cvars, get_err, pc, exchange, lookups, sock, remote_addr, wire,
                    arrived, consumed, now, timeout_time, outcome, printed >>

WithEndpoint(endpoint) ==
    /\ client # None
    /\ client' = Some(ClientSetEndpoint(client[1], endpoint))
    /\ UNCHANGED << dvars, cvars, get_err, pc, exchange, lookups, sock, remote_addr, wire,
                    arrived, consumed, now, timeout_time, outcome, printed >>

-----------------------------------------------------------------------------
(* Client::send: resolve, bind, send one datagram, listen until a Content  *)
(* message or the deadline                                                 *)

TimeoutMs == 5000

TickMs == 2500

MaxTime == 7500

MaxDatagrams == 3

DnsAnswers == { << 9, 9, 9, 9 >> }

(* Endpoint::resolve *)
ResolveResults(endpoint) ==
    IF endpoint.tag = "Unset" THEN { Err([kind |-> "EndpointNotSet"]) }
    ELSE IF endpoint.tag = "Resolved" THEN { Ok(endpoint.addr) }
    ELSE { Ok(SocketAddr(ip, endpoint.port)) : ip \in DnsAnswers }
         \cup { Err([kind |-> "ResolutionError"]) }

(* What UdpFramed's stream yields for one arrival: a decoded message with  *)
(* its sender, the codec's error for an undecodable datagram, or the       *)
(* socket's error.                                                         *)
Inbound ==
    { Ok([msg |-> [code |-> "Content", payload |-> 1], addr |-> SocketAddr(ServerIp, 9999)]),
      Ok([msg |-> [code |-> "Content", payload |-> 2], addr |-> SocketAddr(<< 7, 7, 7, 7 >>, 7)]),
      Ok([msg |-> [code |-> "NotFound", payload |-> 0], addr |-> SocketAddr(ServerIp, 9999)]),
      Err([kind |-> "Decode"]),
      Err([kind |-> "Io"]) }

(* faulty variant: a Content message counts only when it comes from the server *)
RECURSIVE FirstContent_ChecksSender(_, _)
FirstContent_ChecksSender(arr, i) ==
    IF i > Len(arr) THEN [read |-> Len(arr), ready |-> None]
    ELSE IF ~arr[i].item.ok THEN [read |-> i, ready |-> Some(Err(arr[i].item.err))]
    ELSE IF arr[i].item.val.msg.code = "Content"
            /\ arr[i].item.val.addr = SocketAddr(ServerIp, 9999)
         THEN [read |-> i, ready |-> Some(Ok(arr[i].item.val.msg))]
         ELSE FirstContent_ChecksSender(arr, i + 1)

(* faulty variant: the first decoded message is taken whatever its code *)
FirstContent_AnyCode(arr, i) ==
    IF i > Len(arr) THEN [read |-> Len(arr), ready |-> None]
    ELSE IF ~arr[i].item.ok THEN [read |-> i, ready |-> Some(Err(arr[i].item.err))]
    ELSE [read |-> i, ready |-> Some(Ok(arr[i].item.val.msg))]

(* sock.filter_map(..).take(1).collect().map(pop): read from entry i on,   *)
(* dropping the messages whose code is not Content, until a Content        *)
(* message, a stream error, or nothing left to read.                       *)
RECURSIVE FirstContent(_, _)
FirstContent(arr, i) ==
    IF i > Len(arr) THEN [read |-> Len(arr), ready |-> None]
    ELSE IF ~arr[i].item.ok THEN [read |-> i, ready |-> Some(Err(arr[i].item.err))]
    ELSE IF arr[i].item.val.msg.code = "Content"
         THEN [read |-> i, ready |-> Some(Ok(arr[i].item.val.msg))]
         ELSE FirstContent(arr, i + 1)

(* faulty variant: the deadline's timer is never looked at *)
PollDeadline_NoTimer(arr, read, t, deadline) ==
    LET inner == FirstContent(arr, read + 1)
    IN  IF inner.ready # None /\ inner.ready[1].ok
        THEN [read |-> inner.read, outcome |-> Some(inner.ready[1]), printed |-> None]
        ELSE IF inner.ready # None
        THEN [read |-> inner.read, outcome |-> Some(Err([kind |-> "Timeout"])),
              printed |-> Some([inner |-> inner.ready[1].err])]
        ELSE [read |-> inner.read, outcome |-> None, printed |-> None]

(* Deadline::poll followed by map_err: the inner future first, then the    *)
(* timer; every error becomes Error::Timeout after being printed.          *)
PollDeadline(arr, read, t, deadline) ==
    LET inner == FirstContent(arr, read + 1)
    IN  IF inner.ready # None /\ inner.ready[1].ok
        THEN [read |-> inner.read, outcome |-> Some(inner.ready[1]), printed |-> None]
        ELSE IF inner.ready # None
        THEN [read |-> inner.read, outcome |-> Some(Err([kind |-> "Timeout"])),
              printed |-> Some([inner |-> inner.ready[1].err])]
        ELSE IF t >= deadline
        THEN [read |-> inner.read, outcome |-> Some(Err([kind |-> "Timeout"])),
              printed |-> Some([elapsed |-> TRUE])]
        ELSE [read |-> inner.read, outcome |-> None, printed |-> None]

Listen(deadline) ==
    LET p == PollDeadline(arrived, consumed, now, deadline)
    IN  /\ consumed' = p.read
        /\ outcome' = p.outcome
        /\ printed' = p.printed
        /\ pc' = IF p.outcome = None THEN "listening" ELSE "done"
        /\ sock' = IF p.outcome = None THEN sock ELSE "closed"

(* faulty variant: send borrows the Client and leaves it with the caller *)
Send_KeepsClient ==
    /\ client # None /\ pc = "none"
    /\ exchange' = client
    /\ pc' = "resolving"
    /\ UNCHANGED << dvars, cvars, client, get_err, lookups, sock, remote_addr, wire,
                    arrived, consumed, now, timeout_time, outcome, printed >>

Send ==
    /\ client # None /\ pc = "none"
    /\ exchange' = client
    /\ client' = None
    /\ pc' = "resolving"
    /\ UNCHANGED << dvars, cvars, get_err, lookups, sock, remote_addr, wire,
                    arrived, consumed, now, timeout_time, outcome, printed >>

(* faulty variant: the socket is bound before the resolution is known *)
Resolve_BindsFirst(r, bindOk) ==
    /\ pc = "resolving"
    /\ r \in ResolveResults(exchange[1].endpoint)
    /\ lookups' = IF exchange[1].endpoint.tag = "Unresolved" THEN lookups + 1 ELSE lookups
    /\ IF ~r.ok
       THEN /\ outcome' = Some(r)
            /\ pc' = "done"
            /\ sock' = IF bindOk THEN "bound" ELSE sock
            /\ UNCHANGED remote_addr
       ELSE /\ remote_addr' = Some(r.val)
            /\ outcome' = outcome
            /\ IF bindOk THEN sock' = "bound" /\ pc' = "sending"
                         ELSE sock' = sock /\ pc' = "panicked"
    /\ UNCHANGED << dvars, cvars, client, get_err, exchange, wire, arrived, consumed, now,
                    timeout_time, printed >>

(* the resolution completes; on success the closure binds the socket *)
Resolve(r, bindOk) ==
    /\ pc = "resolving"
    /\ r \in ResolveResults(exchange[1].endpoint)
    /\ lookups' = IF exchange[1].endpoint.tag = "Unresolved" THEN lookups + 1 ELSE lookups
    /\ IF ~r.ok
       THEN /\ outcome' = Some(r)
            /\ pc' = "done"
            /\ UNCHANGED << sock, remote_addr >>
       ELSE /\ remote_addr' = Some(r.val)
            /\ outcome' = outcome
            /\ IF bindOk THEN sock' = "bound" /\ pc' = "sending"
                         ELSE sock' = sock /\ pc' = "panicked"
    /\ UNCHANGED << dvars, cvars, client, get_err, exchange, wire, arrived, consumed, now,
                    timeout_time, printed >>

(* framed_socket.send((msg, remote_addr)) completes: on success the        *)
(* closure sets the deadline and the receive chain is polled               *)
SendDatagram(sendOk) ==
    /\ pc = "sending"
    /\ IF sendOk
       THEN /\ wire' = Append(wire, [to |-> remote_addr[1], msg |-> exchange[1].msg])
            /\ timeout_time' = Some(now + TimeoutMs)
            /\ Listen(now + TimeoutMs)
       ELSE /\ outcome' = Some(Err([kind |-> "Io"]))
            /\ pc' = "done"
            /\ sock' = "closed"
            /\ UNCHANGED << wire, timeout_time, consumed, printed >>
    /\ UNCHANGED << dvars, cvars, client, get_err, exchange, lookups, remote_addr, arrived, now >>

(* faulty variant: the request is sent again whenever a poll finds no match *)
Poll_Retransmits ==
    /\ pc = "listening"
    /\ Listen(timeout_time[1])
    /\ wire' = IF PollDeadline(arrived, consumed, now, timeout_time[1]).outcome = None
               THEN wire ELSE Append(wire, [to |-> remote_addr[1], msg |-> exchange[1].msg])
    /\ UNCHANGED << dvars, cvars, client, get_err, exchange, lookups, remote_addr,
                    arrived, now, timeout_time >>

(* faulty variant: a finished exchange is polled again *)
Poll_Repolls ==
    /\ pc \in { "listening", "done" } /\ timeout_time # None
    /\ Listen(timeout_time[1])
    /\ UNCHANGED << dvars, cvars, client, get_err, exchange, lookups, remote_addr, wire,
                    arrived, now, timeout_time >>

Poll ==
    /\ pc = "listening"
    /\ Listen(timeout_time[1])
    /\ UNCHANGED << dvars, cvars, client, get_err, exchange, lookups, remote_addr, wire,
                    arrived, now, timeout_time >>

Deliver(item) ==
    /\ sock = "bound"
    /\ Len(arrived) < MaxDatagrams
    /\ arrived' = Append(arrived, [item |-> item, at |-> now])
    /\ UNCHANGED << dvars, cvars, client, get_err, pc, exchange, lookups, sock, remote_addr,
                    wire, consumed, now, timeout_time, outcome, printed >>

(* time passes; the clock is followed up to MaxTime, and beyond it for as   *)
(* long as a listening exchange still waits for its deadline                *)
Tick ==
    /\ \/ now < MaxTime
       \/ pc = "listening" /\ now < timeout_time[1]
    /\ now' = now + TickMs
    /\ UNCHANGED << dvars, cvars, client, get_err, pc, exchange, lookups, sock, remote_addr,
                    wire, arrived, consumed, timeout_time, outcome, printed >>

(* faulty variant: dropping the future leaves the socket open *)
Drop_LeaksSocket ==
    /\ pc \in { "resolving", "sending", "listening" }
    /\ pc' = "dropped"
    /\ UNCHANGED << dvars, cvars, client, get_err, exchange, lookups, sock, remote_addr, wire,
                    arrived, consumed, now, timeout_time, outcome, printed >>

(* the caller drops the future before it completed *)
Drop ==
    /\ pc \in { "resolving", "sending", "listening" }
    /\ pc' = "dropped"
    /\ sock' = IF sock = "bound" THEN "closed" ELSE sock
    /\ UNCHANGED << dvars, cvars, client, get_err, exchange, lookups, remote_addr, wire,
                    arrived, consumed, now, timeout_time, outcome, printed >>

(* the datagrams the stream has read are gone from the socket's queue; in  *)
(* the specification of termination this lets datagrams arrive for ever    *)
(* while at most MaxDatagrams are queued                                   *)
ForgetRead ==
    /\ pc = "listening"
    /\ consumed > 0
    /\ arrived' = SubSeq(arrived, consumed + 1, Len(arrived))
    /\ consumed' = 0
    /\ UNCHANGED << dvars, cvars, client, get_err, pc, exchange, lookups, sock, remote_addr,
                    wire, now, timeout_time, outcome, printed >>

Init ==
    /\ uri = Uri("coap", None, None, None, None, None)
    /\ decomposed = None
    /\ InitExchange

Next ==
    \/ New
    \/ \E parsed \in UriNewResults : Get(parsed)
    \/ \E e \in SetEndpoints : SetEndpoint(e)
    \/ \E e \in SetEndpoints : WithEndpoint(e)
    \/ Send
    \/ \E r \in UNION { ResolveResults(e) : e \in SetEndpoints }, b \in BOOLEAN : Resolve(r, b)
    \/ \E ok \in BOOLEAN : SendDatagram(ok)
    \/ Poll
    \/ \E item \in Inbound : Deliver(item)
    \/ Tick
    \/ Drop

Spec == Init /\ [][Next]_vars

-----------------------------------------------------------------------------
(* Several exchanges at once.  Each call of send moves its own Client in,  *)
(* binds its own socket to 0.0.0.0:0, for which the system picks a local   *)
(* port no other open socket has, and builds its own chain of futures;     *)
(* the code has no state outside these values.  The Clients here have a    *)
(* resolved endpoint and the bind and the send succeed, so a call of send  *)
(* is followed up to the request having left.                              *)

MaxConcDatagrams == 2

LocalPorts == { 40001, 40002 }

ConcClients ==
    { ClientSetEndpoint(c, Resolved(SocketAddr(ServerIp, 9999))) :
        c \in { ClientNew, ClientGet(Some(Uri("coap", Some(Str(<< "h" >>)), None,
                                              Some(Str(<< "/", "p" >>)), None, None))).val } }

ConcInbound == { item \in Inbound : item.ok /\ item.val.addr = SocketAddr(ServerIp, 9999) }

OpenPorts == { exchanges[i].port[1] : i \in { j \in Exchanges : exchanges[j].pc = "listening" } }

(* send(self) of Client c as exchange i; the system assigns local port p *)
ConcSend(i, c, p) ==
    /\ exchanges[i].pc = "none"
    /\ p \notin OpenPorts
    /\ exchanges' = [exchanges EXCEPT ![i] =
          [pc |-> "listening", msg |-> Some(c.msg), remote_addr |-> Some(c.endpoint.addr),
           port |-> Some(p),
           wire |-> << [from |-> p, to |-> c.endpoint.addr, msg |-> c.msg] >>,
           arrived |-> << >>, consumed |-> 0,
           timeout_time |-> Some(now + TimeoutMs), outcome |-> None]]
    /\ UNCHANGED << dvars, xvars >>

(* faulty variant: a datagram reaches every open socket *)
ConcDeliver_Broadcast(p, item) ==
    /\ p \in OpenPorts
    /\ \E i \in Exchanges : exchanges[i].pc = "listening"
                            /\ Len(exchanges[i].arrived) < MaxConcDatagrams
    /\ exchanges' = [i \in Exchanges |->
          IF exchanges[i].pc = "listening" /\ Len(exchanges[i].arrived) < MaxConcDatagrams
          THEN [exchanges[i] EXCEPT !.arrived = Append(@, [item |-> item, to |-> p])]
          ELSE exchanges[i]]
    /\ UNCHANGED << dvars, xvars >>

(* a datagram addressed to local port p reaches the socket bound to p *)
ConcDeliver(p, item) ==
    /\ \E i \in Exchanges :
          /\ exchanges[i].pc = "listening" /\ exchanges[i].port = Some(p)
          /\ Len(exchanges[i].arrived) < MaxConcDatagrams
          /\ exchanges' = [exchanges EXCEPT ![i].arrived = Append(@, [item |-> item, to |-> p])]
    /\ UNCHANGED << dvars, xvars >>

(* the task of exchange i polls its future *)
ConcPoll(i) ==
    /\ exchanges[i].pc = "listening"
    /\ LET e == exchanges[i]
           r == PollDeadline(e.arrived, e.consumed, now, e.timeout_time[1])
       IN  exchanges' = [exchanges EXCEPT ![i] =
              [e EXCEPT !.consumed = r.read, !.outcome = r.outcome,
                        !.pc = IF r.outcome = None THEN "listening" ELSE "done"]]
    /\ UNCHANGED << dvars, xvars >>

(* the caller drops the future of exchange i *)
ConcDrop(i) ==
    /\ exchanges[i].pc = "listening"
    /\ exchanges' = [exchanges EXCEPT ![i].pc = "dropped"]
    /\ UNCHANGED << dvars, xvars >>

NextConc ==
    \/ \E i \in Exchanges, c \in ConcClients, p \in LocalPorts : ConcSend(i, c, p)
    \/ \E p \in LocalPorts, item \in ConcInbound : ConcDeliver(p, item)
    \/ \E i \in Exchanges : ConcPoll(i)
    \/ \E i \in Exchanges : ConcDrop(i)
    \/ Tick

SpecConc == Init /\ [][NextConc]_vars

(* Termination of one exchange: the message sent does not matter, so the   *)
(* Client is built with new and set_endpoint only.  The timer and the      *)
(* socket wake the task, so a listening exchange keeps being polled, and   *)
(* time keeps passing.                                                     *)
NextLive ==
    \/ New
    \/ \E e \in SetEndpoints : SetEndpoint(e)
    \/ Send
    \/ \E r \in UNION { ResolveResults(e) : e \in SetEndpoints }, b \in BOOLEAN : Resolve(r, b)
    \/ \E ok \in BOOLEAN : SendDatagram(ok)
    \/ Poll
    \/ \E item \in Inbound : Deliver(item)
    \/ ForgetRead
    \/ Tick
    \/ Drop

SpecLive == Init /\ [][NextLive]_vars /\ WF_vars(Tick) /\ WF_vars(Poll)

-----------------------------------------------------------------------------
(* What the claims about decompose expect, stated from the URI's text:     *)
(* the pieces of a string are delimited by the positions of its            *)
(* separators.                                                             *)

SepPositions(s, sep) == { i \in DOMAIN s : s[i] = sep }

NthSep(s, sep, k) ==
    CHOOSE i \in SepPositions(s, sep) :
        Cardinality({ j \in SepPositions(s, sep) : j < i }) = k - 1

(* the text between the k-th separator and the next one (or the end) *)
PieceAfterSep(s, sep, k) ==
    LET n    == Cardinality(SepPositions(s, sep))
        stop == IF k < n THEN NthSep(s, sep, k + 1) - 1 ELSE Len(s)
    IN  SubSeq(s, NthSep(s, sep, k) + 1, stop)

PathOf(u) == IF u.path = None THEN << 47 >> ELSE u.path[1]

QueryOf(u) == IF u.query = None THEN << >> ELSE u.query[1]

PathSegments(u) ==
    [k \in 1..Cardinality(SepPositions(PathOf(u), 47)) |-> PieceAfterSep(PathOf(u), 47, k)]

QueryPieces(u) ==
    IF QueryOf(u) = << >> THEN << >>
    ELSE LET s == << 38 >> \o QueryOf(u)
         IN  [k \in 1..Cardinality(SepPositions(s, 38)) |-> PieceAfterSep(s, 38, k)]

ExpectedPathOptions(u) ==
    [k \in DOMAIN PathSegments(u) |->
        [option |-> "UriPath", value |-> percent_decode(PathSegments(u)[k])]]

ExpectedQueryOptions(u) ==
    [k \in DOMAIN QueryPieces(u) |->
        [option |-> "UriQuery", value |-> percent_decode(QueryPieces(u)[k])]]

OptionRank(o) ==
    IF o.option = "UriHost" THEN 1 ELSE IF o.option = "UriPath" THEN 2 ELSE 3

Succeeded == decomposed # None /\ decomposed[1].ok

Failed == decomposed # None /\ ~decomposed[1].ok

(* C1: a successful decomposition of a URI whose host is not an IP literal *)
(* gives Unresolved(h, p), h the lowercased then percent-decoded host, p   *)
(* the port or 5683, and the options are Uri-Host(h), then one Uri-Path    *)
(* per path segment, then one Uri-Query per query piece, each decoded and  *)
(* in order.                                                               *)
C1_UnresolvedOptions ==
    (Succeeded /\ ParseIpAddr(uri.host[1]) = None) =>
        LET r == decomposed[1].val
            h == percent_decode(to_lowercase(uri.host[1]))
            p == IF uri.port = None THEN 5683 ELSE uri.port[1]
        IN  /\ r.endpoint = [tag |-> "Unresolved", host |-> h, port |-> p]
            /\ r.options = << [option |-> "UriHost", value |-> h] >>
                             \o ExpectedPathOptions(uri) \o ExpectedQueryOptions(uri)
            /\ \A i, j \in DOMAIN r.options :
                  i < j => OptionRank(r.options[i]) <= OptionRank(r.options[j])

C1_Witness ==
    /\ Succeeded
    /\ uri.port = None
    /\ uri.host = Some(Str(<< "h" >>))
    /\ uri.path = Some(Str(<< "/", "a", "/", "p" >>))
    /\ decomposed[1].val.endpoint.tag = "Unresolved"
    /\ Len(decomposed[1].val.options) = 4
    /\ decomposed[1].val.options[4].option = "UriQuery"

(* C2: a successful result is Resolved(ip, port) exactly when the host     *)
(* parsed as an IP literal, and then no Uri-Host is among the options;     *)
(* otherwise it is Unresolved(host, port) with exactly one Uri-Host, whose *)
(* value is the endpoint's host.  The result is never Unset.               *)
C2_EndpointMatchesHost ==
    Succeeded =>
        LET r     == decomposed[1].val
            hosts == { i \in DOMAIN r.options : r.options[i].option = "UriHost" }
            ip    == ParseIpAddr(uri.host[1])
        IN  /\ r.endpoint.tag # "Unset"
            /\ (r.endpoint.tag = "Resolved") <=> (ip # None)
            /\ ip # None =>
                  /\ hosts = { }
                  /\ r.endpoint.addr.ip = ip[1]
                  /\ r.endpoint.addr.port = (IF uri.port = None THEN 5683 ELSE uri.port[1])
            /\ ip = None =>
                  /\ r.endpoint.tag = "Unresolved"
                  /\ Cardinality(hosts) = 1
                  /\ \A i \in hosts : r.options[i].value = r.endpoint.host

C2_Witness ==
    /\ Succeeded
    /\ decomposed[1].val.endpoint.tag = "Resolved"
    /\ decomposed[1].val.endpoint.addr.port = 9999
    /\ Len(decomposed[1].val.options) >= 2

AllComponentsUtf8(u) ==
    /\ ValidUtf8(percent_decode(u.host[1]))
    /\ \A k \in DOMAIN PathSegments(u) : ValidUtf8(percent_decode(PathSegments(u)[k]))
    /\ \A k \in DOMAIN QueryPieces(u) : ValidUtf8(percent_decode(QueryPieces(u)[k]))

Accepts(u) ==
    /\ u.scheme = "coap"
    /\ u.fragment = None
    /\ u.host # None
    /\ Len(PathOf(u)) >= 1 /\ PathOf(u)[1] = 47
    /\ AllComponentsUtf8(u)

(* C3: decompose succeeds exactly when the scheme is "coap", there is no   *)
(* fragment, a host is present, the path (or "/") starts with '/', and     *)
(* every percent-decoded component is valid UTF-8; otherwise it fails with *)
(* a UrlParsing error and carries no endpoint and no options.              *)
C3_SucceedsIff ==
    decomposed # None =>
        /\ decomposed[1].ok <=> Accepts(uri)
        /\ ~decomposed[1].ok =>
              /\ decomposed[1].err.kind = "UrlParsing"
              /\ DOMAIN decomposed[1] = { "ok", "err" }

C3_Witness ==
    /\ Failed
    /\ uri.scheme = "coap" /\ uri.fragment = None /\ uri.host # None
    /\ PathOf(uri) = Str(<< "/", "%", "f", "f" >>)
    /\ decomposed[1].err.reason = << "invalid utf-8 sequence" >>

ViolatesScheme(u) == u.scheme # "coap"

ViolatesFragment(u) == u.fragment # None

(* the host step fails: no host, or a non-IP host that does not decode *)
ViolatesHost(u) ==
    \/ u.host = None
    \/ /\ ParseIpAddr(u.host[1]) = None
       /\ ~ValidUtf8(percent_decode(to_lowercase(u.host[1])))

ViolatesPath(u) == ~(Len(PathOf(u)) >= 1 /\ PathOf(u)[1] = 47)

IsSchemeError(u, e) ==
    IF u.scheme = "coaps"
    THEN e.reason = << "the coaps scheme is currently unsupported" >>
    ELSE e.reason = << u.scheme, " is not a coap scheme" >>

IsFragmentError(e) == e.reason = << "cannot specify fragment on coap url" >>

IsHostError(u, e) ==
    IF u.host = None
    THEN e.reason = << "missing host, a coap url must be absolute" >>
    ELSE e.reason = << "invalid utf-8 sequence" >>

IsPathError(e) ==
    e.reason = << "path does not start with /, a coap url must be absolute" >>

ReportsEarliest(u, r) ==
    IF ViolatesScheme(u) THEN ~r.ok /\ IsSchemeError(u, r.err)
    ELSE IF ViolatesFragment(u) THEN ~r.ok /\ IsFragmentError(r.err)
    ELSE IF ViolatesHost(u) THEN ~r.ok /\ IsHostError(u, r.err)
    ELSE IF ViolatesPath(u) THEN ~r.ok /\ IsPathError(r.err)
    ELSE TRUE

RemoveEarliest(u) ==
    IF ViolatesScheme(u) THEN [u EXCEPT !.scheme = "coap"]
    ELSE IF ViolatesFragment(u) THEN [u EXCEPT !.fragment = None]
    ELSE IF ViolatesHost(u) THEN [u EXCEPT !.host = Some(Str(<< "h" >>))]
    ELSE IF ViolatesPath(u) THEN [u EXCEPT !.path = None]
    ELSE u

NumViolations(u) ==
    (IF ViolatesScheme(u) THEN 1 ELSE 0) + (IF ViolatesFragment(u) THEN 1 ELSE 0)
    + (IF ViolatesHost(u) THEN 1 ELSE 0) + (IF ViolatesPath(u) THEN 1 ELSE 0)

(* C4: the checks run in the order scheme, fragment, host, path: the error *)
(* reported is that of the earliest violated check, and with that one      *)
(* violation removed the error reported is that of the next violated       *)
(* check.  The host check is the whole host step: a missing host, or a     *)
(* non-IP host whose percent-decoding is not UTF-8.                        *)
C4_EarliestCheckReported ==
    decomposed # None =>
        /\ ReportsEarliest(uri, decomposed[1])
        /\ ReportsEarliest(RemoveEarliest(uri), decompose(RemoveEarliest(uri)))
        /\ NumViolations(uri) >= 1 =>
              NumViolations(RemoveEarliest(uri)) = NumViolations(uri) - 1

C4_Witness ==
    /\ Failed
    /\ ViolatesScheme(uri) /\ ViolatesFragment(uri)
    /\ ViolatesHost(uri) /\ ViolatesPath(uri)
    /\ IsSchemeError(uri, decomposed[1].err)
    /\ IsFragmentError(decompose(RemoveEarliest(uri)).err)

(* C5: decomposing a coap URI whose host is empty fails with the           *)
(* missing-host error: no Uri-Host("") option and no Unresolved("", port)  *)
(* endpoint is ever produced.                                              *)
C5_EmptyHostRejected ==
    decomposed # None =>
        /\ (uri.scheme = "coap" /\ uri.fragment = None /\ uri.host = Some(<< >>)) =>
              /\ ~decomposed[1].ok
              /\ decomposed[1].err.reason = << "missing host, a coap url must be absolute" >>
        /\ decomposed[1].ok =>
              /\ \A i \in DOMAIN decomposed[1].val.options :
                    decomposed[1].val.options[i] # [option |-> "UriHost", value |-> << >>]
              /\ (decomposed[1].val.endpoint.tag = "Unresolved"
                    => decomposed[1].val.endpoint.host # << >>)

-----------------------------------------------------------------------------
(* The exchange                                                            *)

IsContent(e) == e.item.ok /\ e.item.val.msg.code = "Content"

TimedOut == outcome = Some(Err([kind |-> "Timeout"]))

(* C6: a Client::get that fails returns its error before any network      *)
(* activity: the step produces no Client, starts no name resolution,       *)
(* binds no socket and sends no datagram.                                  *)
C6_GetFailsBeforeNetwork ==
    [][ (get_err = None /\ get_err' # None) =>
            /\ get_err'[1].kind = "UrlParsing"
            /\ client' = None
            /\ pc' = "none" /\ exchange' = None
            /\ lookups' = 0
            /\ sock' = "none"
            /\ wire' = << >> ]_vars

C6_Witness ==
    /\ get_err = Some(url_parsing(<< "the coaps scheme is currently unsupported" >>))
    /\ client = None
    /\ sock = "none" /\ wire = << >> /\ lookups = 0

(* C7: a successful exchange returns exactly the first decoded message, in *)
(* arrival order, whose code is Content; every message before it had       *)
(* another code and was discarded without ending the exchange; and the     *)
(* result, once produced, never changes.                                   *)
C7_FirstContentReturned ==
    /\ [] ( (outcome # None /\ outcome[1].ok) =>
              \E i \in DOMAIN arrived :
                  /\ IsContent(arrived[i])
                  /\ outcome[1].val = arrived[i].item.val.msg
                  /\ consumed = i
                  /\ \A j \in 1..(i - 1) : arrived[j].item.ok /\ ~IsContent(arrived[j]) )
    /\ [][ outcome # None => outcome' = outcome ]_vars

C7_Witness ==
    /\ outcome # None /\ outcome[1].ok
    /\ Len(arrived) = 3
    /\ arrived[1].item.ok /\ arrived[1].item.val.msg.code = "NotFound"
    /\ IsContent(arrived[2]) /\ arrived[2].item.val.msg.payload = 2
    /\ IsContent(arrived[3]) /\ arrived[3].item.val.msg.payload = 1
    /\ outcome[1].val.payload = 2

(* C8: once the request is sent, the exchange yields the Content message   *)
(* if a Content datagram arrives before the deadline, fails with Timeout   *)
(* only if the deadline elapsed with no Content message before it, and     *)
(* ends in one of these two ways.                                          *)
C8_ContentOrTimeout ==
    (pc = "done" /\ timeout_time # None) =>
        LET onTime == { i \in DOMAIN arrived :
                          IsContent(arrived[i]) /\ arrived[i].at < timeout_time[1] }
        IN  /\ onTime # { } => (outcome[1].ok /\ outcome[1].val.code = "Content")
            /\ ~outcome[1].ok =>
                  /\ TimedOut
                  /\ now >= timeout_time[1]
                  /\ onTime = { }

(* C9: an undecodable datagram is discarded and the exchange keeps         *)
(* listening: reading it does not end the exchange, and a Content datagram *)
(* that arrives after it and before the deadline is still the result.      *)
C9_DecodeFailureTolerated ==
    \A i \in 1..consumed :
        arrived[i].item = Err([kind |-> "Decode"]) =>
            /\ (i = consumed /\ pc = "done") => now >= timeout_time[1]
            /\ pc = "done" =>
                  \A j \in (i + 1)..Len(arrived) :
                      (IsContent(arrived[j]) /\ arrived[j].at < timeout_time[1])
                          => outcome[1].ok

(* C10: the exchange fails with Timeout only when the deadline has elapsed *)
(* with no Content message received: an Io or Decode failure while         *)
(* receiving is not reported as Timeout before the deadline.               *)
C10_TimeoutOnlyAfterDeadline ==
    TimedOut =>
        /\ timeout_time # None
        /\ now >= timeout_time[1]
        /\ \A i \in 1..consumed : ~IsContent(arrived[i])

(* C11: at most one datagram is ever sent by an exchange, the request to   *)
(* the resolved address: nothing is sent before the send step, and no      *)
(* lost, non-matching or undecodable response, no expired deadline and no  *)
(* failure sends it again.                                                 *)
C11_AtMostOneDatagram ==
    /\ Len(wire) <= 1
    /\ pc \in { "none", "resolving", "sending" } => wire = << >>
    /\ wire # << >> => wire[1] = [to |-> remote_addr[1], msg |-> exchange[1].msg]
    /\ (outcome # None /\ ~outcome[1].ok) => pc \in { "done" }

C11_Witness ==
    /\ pc = "done" /\ TimedOut
    /\ printed = Some([elapsed |-> TRUE])
    /\ consumed = 2
    /\ Len(wire) = 1

C13_ResolutionFailure ==
    /\ (exchange # None /\ exchange[1].endpoint.tag = "Unset" /\ pc \notin { "resolving", "dropped" })
          => (pc = "done" /\ outcome = Some(Err([kind |-> "EndpointNotSet"])))
    /\ (outcome # None /\ ~outcome[1].ok
          /\ outcome[1].err.kind \in { "EndpointNotSet", "ResolutionError" })
          => (sock = "none" /\ wire = << >> /\ remote_addr = None /\ arrived = << >>)

C13_Witness ==
    /\ exchange # None
    /\ exchange[1] = ClientNew
    /\ outcome = Some(Err([kind |-> "EndpointNotSet"]))
    /\ sock = "none" /\ wire = << >>

(* C14, as claimed: before send a Client's endpoint changes exactly once,  *)
(* from Unset to Unresolved or Resolved (so it is never changed again,     *)
(* never set back to Unset, and is not Unset when send is called), and     *)
(* after send the Client cannot be used again.                             *)
C14_EndpointSetExactlyOnce ==
    [][ /\ (client # None /\ client' # None /\ client[1].endpoint.tag # "Unset")
              => client'[1].endpoint = client[1].endpoint
        /\ (client # None /\ client' # None /\ client'[1].endpoint # client[1].endpoint)
              => client'[1].endpoint.tag # "Unset"
        /\ (exchange = None /\ exchange' # None) => exchange'[1].endpoint.tag # "Unset"
        /\ exchange # None => (client' = None /\ exchange' = exchange) ]_vars

(* C14, amended: before send the endpoint may be set any number of times   *)
(* (never, once by get, again by every set_endpoint or with_endpoint, also *)
(* back to Unset); send moves the Client, with the endpoint and message it *)
(* then has, into the exchange, and after send the Client is gone: no      *)
(* second send and no further endpoint change.                             *)
C14_ClientConsumedBySend ==
    [][ /\ (exchange = None /\ exchange' # None) => (client # None /\ exchange' = client)
        /\ exchange' # None => client' = None
        /\ exchange # None => exchange' = exchange ]_vars

C14_Witness ==
    /\ exchange # None /\ client = None
    /\ exchange[1].endpoint = Unset
    /\ exchange[1].msg.options # << >>
    /\ pc = "done"

PcRank(p) ==
    IF p = "none" THEN 0 ELSE IF p = "resolving" THEN 1 ELSE IF p = "sending" THEN 2
    ELSE IF p = "listening" THEN 3 ELSE 4

(* C15: an exchange moves only forward through Idle (not yet sent), Sent,  *)
(* Listening, then Matched or TimedOut: the request is sent only from the  *)
(* sending step, after the resolution gave an address; nothing is read     *)
(* from the socket before the request is sent; a poll that reads only      *)
(* messages with other codes before the deadline stays Listening; and a    *)
(* finished exchange never moves again.                                    *)
C15_StateOrder ==
    [][ /\ PcRank(pc') >= PcRank(pc)
        /\ pc' = "resolving" => pc \in { "none", "resolving" }
        /\ pc' = "sending" => (pc \in { "resolving", "sending" } /\ remote_addr' # None)
        /\ pc' = "listening" => (pc \in { "sending", "listening" } /\ wire' # << >>)
        /\ wire' # wire => (pc = "sending" /\ remote_addr # None /\ sock = "bound")
        /\ consumed' # consumed => (wire' # << >> /\ pc \in { "sending", "listening" })
        /\ (pc = "listening" /\ now < timeout_time[1]
              /\ \A i \in (consumed + 1)..Len(arrived) :
                    arrived[i].item.ok /\ ~IsContent(arrived[i]))
              => pc' \in { "listening", "dropped" }
        /\ (pc = "listening" /\ pc' = "done")
              => (TimedOut' \/ (outcome'[1].ok /\ outcome'[1].val.code = "Content"))
        /\ pc \in { "done", "dropped", "panicked" }
              => (pc' = pc /\ outcome' = outcome /\ consumed' = consumed) ]_vars

C15_Witness ==
    /\ pc = "done"
    /\ outcome # None /\ outcome[1].ok
    /\ consumed = 2
    /\ arrived[1].item.ok /\ ~IsContent(arrived[1])
    /\ arrived[1].at < arrived[2].at

(* C16: every exchange that has sent its request ends, with exactly one    *)
(* outcome that never changes, even when datagrams with other codes keep   *)
(* arriving for ever: given that time passes and the task is polled,       *)
(* Listening is always eventually left.                                    *)
C16_ListeningEnds ==
    /\ (pc = "listening") ~> (pc \in { "done", "dropped" })
    /\ [] (pc = "done" => outcome # None)
    /\ [] (outcome # None => pc = "done")
    /\ [][ outcome # None => outcome' = outcome ]_vars

C16_Witness ==
    /\ pc = "done" /\ TimedOut
    /\ printed = Some([elapsed |-> TRUE])
    /\ Len(arrived) = 2 /\ consumed = 2
    /\ arrived[1].at >= timeout_time[1]

(* C17: concurrent exchanges share nothing.  Open sockets have different   *)
(* local ports, what an exchange sent is its own message from its own      *)
(* port, what it receives was addressed to its own port, its message never *)
(* changes, and a step that changes one exchange (a delivery, a poll, a    *)
(* drop, a send) leaves every other exchange as it was.                    *)
C17_ExchangesIsolated ==
    /\ [] (\A i, j \in Exchanges :
              (i # j /\ exchanges[i].pc = "listening" /\ exchanges[j].pc = "listening")
                  => exchanges[i].port # exchanges[j].port)
    /\ [] (\A i \in Exchanges :
              /\ \A k \in 1..Len(exchanges[i].wire) :
                    /\ Some(exchanges[i].wire[k].msg) = exchanges[i].msg
                    /\ Some(exchanges[i].wire[k].from) = exchanges[i].port
              /\ \A k \in 1..Len(exchanges[i].arrived) :
                    Some(exchanges[i].arrived[k].to) = exchanges[i].port)
    /\ [][ \A i \in Exchanges :
              /\ exchanges[i].pc # "none"
                    => /\ exchanges'[i].msg = exchanges[i].msg
                       /\ exchanges'[i].wire = exchanges[i].wire
              /\ exchanges'[i] # exchanges[i]
                    => \A j \in Exchanges \ { i } : exchanges'[j] = exchanges[j] ]_vars

C17_Witness ==
    /\ exchanges["a"].pc = "done" /\ exchanges["a"].outcome[1].ok
    /\ exchanges["b"].pc = "listening" /\ exchanges["b"].consumed = 1
    /\ Len(exchanges["b"].arrived) = 1
    /\ exchanges["a"].msg # exchanges["b"].msg
    /\ exchanges["a"].port # exchanges["b"].port

IsUriPath(o) == o.option = "UriPath"

UriPathOptions == SelectSeq(decomposed[1].val.options, IsUriPath)

(* C18: after a successful decomposition there are as many Uri-Path        *)
(* options as the path has '/' characters; a segment that is empty (a      *)
(* doubled or trailing '/') is an option with the empty string; and a URI  *)
(* without a path gives exactly one Uri-Path option, the empty string.     *)
C18_UriPathPerSlash ==
    Succeeded =>
        /\ Len(UriPathOptions) = Cardinality(SepPositions(PathOf(uri), 47))
        /\ \A k \in DOMAIN PathSegments(uri) :
              PathSegments(uri)[k] = << >> => UriPathOptions[k].value = << >>
        /\ uri.path = None => UriPathOptions = << [option |-> "UriPath", value |-> << >>] >>

C18_Witness ==
    /\ Succeeded
    /\ uri.path = Some(Str(<< "/", "/", "a", "/" >>))
    /\ Len(UriPathOptions) = 3
    /\ UriPathOptions[1].value = << >> /\ UriPathOptions[3].value = << >>

(* the Clients the constructors new and get return *)
ConstructedClients ==
    { ClientNew } \cup { ClientGet(p).val : p \in { q \in UriNewResults : ClientGet(q).ok } }

(* C19: set_endpoint and with_endpoint replace the endpoint and nothing    *)
(* else: a step from one Client value to another keeps the message, so the *)
(* message of a Client, of the exchange made from it and of the request    *)
(* sent is always one a constructor produced, the Uri-Host option of get   *)
(* included, whatever the endpoint was replaced with.                      *)
C19_OverrideKeepsMessage ==
    /\ [][ (client # None /\ client' # None) => client'[1].msg = client[1].msg ]_vars
    /\ [] (client # None => \E c \in ConstructedClients : client[1].msg = c.msg)
    /\ [] (exchange # None => \E c \in ConstructedClients : exchange[1].msg = c.msg)
    /\ [] (\A k \in DOMAIN wire : wire[k].msg = exchange[1].msg)

C19_Witness ==
    /\ wire # << >>
    /\ exchange[1].endpoint = Resolved(SocketAddr(ServerIp, 9999))
    /\ wire[1].to = SocketAddr(ServerIp, 9999)
    /\ wire[1].msg.options # << >>
    /\ wire[1].msg.options[1] = [option |-> "UriHost", value |-> Str(<< "h" >>)]

(* what of an arrival the filter looks at: the code of a decoded message,  *)
(* or the error                                                            *)
CodeView(item) == IF item.ok THEN [ok |-> TRUE, code |-> item.val.msg.code] ELSE item

(* the arrival sequences of a second run that differ from this run's only  *)
(* in what is not the code: sender address and payload                     *)
SameCodeRuns ==
    { alt \in [DOMAIN arrived -> Inbound] :
        \A k \in DOMAIN arrived : CodeView(alt[k]) = CodeView(arrived[k].item) }

AsArrived(alt) == [k \in DOMAIN alt |-> [item |-> alt[k], at |-> arrived[k].at]]

SameVerdict(r1, r2) ==
    /\ r1.read = r2.read
    /\ (r1.outcome = None) = (r2.outcome = None)
    /\ r1.outcome # None => /\ r1.outcome[1].ok = r2.outcome[1].ok
                            /\ ~r1.outcome[1].ok => r1.outcome = r2.outcome

(* C20: whether a decoded datagram ends the exchange depends on its code   *)
(* only.  A second run that receives datagrams with the same codes at the  *)
(* same times, from any senders and with any payloads, gets from every     *)
(* poll the same verdict at the same position; and where this run ended    *)
(* on a datagram, the second run ends on the datagram at that position.    *)
C20_OnlyCodeDecides ==
    \A alt \in SameCodeRuns :
        /\ pc = "listening" =>
              SameVerdict(PollDeadline(arrived, consumed, now, timeout_time[1]),
                          PollDeadline(AsArrived(alt), consumed, now, timeout_time[1]))
        /\ (pc = "done" /\ timeout_time # None /\ (outcome[1].ok \/ printed # Some([elapsed |-> TRUE])))
              => LET f == FirstContent(SubSeq(AsArrived(alt), 1, consumed), 1)
                 IN  /\ f.read = consumed
                     /\ f.ready # None
                     /\ f.ready[1].ok = outcome[1].ok
        /\ (pc = "done" /\ timeout_time # None /\ printed = Some([elapsed |-> TRUE]))
              => FirstContent(SubSeq(AsArrived(alt), 1, consumed), 1).ready = None

C20_Witness ==
    /\ pc = "done" /\ consumed = 2
    /\ ~IsContent(arrived[1])
    /\ arrived[2].item.ok /\ arrived[2].item.val.addr # remote_addr[1]
    /\ outcome = Some(Ok(arrived[2].item.val.msg))

=============================================================================
